---- MODULE Spec2Model ----
(***************************************************************************)
(* Model of the to-do application (muyiwer/todo-app-mobile).               *)
(*                                                                         *)
(*   - the task store: taskReducer and the derived view of TaskProvider    *)
(*     (contexts/TaskContext.tsx), driven by the handlers of               *)
(*     AddTaskScreen (manual entry) and TaskListScreen (voice entry);      *)
(*   - the separator-list parser of VoiceInputButton (parseTasksFromText); *)
(*   - the conjunction-aware parser of lib/speechParser.ts                 *)
(*     (parseTasksFromSpeech, isLikelyTask, cleanTask) and its due-date    *)
(*     resolver (extractDueDateFromText).                                  *)
(*                                                                         *)
(* JavaScript strings are sequences of one-character strings.              *)
(***************************************************************************)
EXTENDS Integers, Sequences, FiniteSets, TLC

VARIABLES
    tasks,        \* TaskState.tasks: the stored collection, in stored order
    searchQuery,  \* TaskState.searchQuery
    filter,       \* TaskState.filter
    now,          \* the value Date.now() returns (clock, in milliseconds)
    alert,        \* the message of the last Alert.alert shown
    voiceQueue,   \* titles handleVoiceTasksDetected has still to add
    input,        \* transcript handed to parseTasksFromSpeech
    output,       \* the array parseTasksFromSpeech returned
    pc,           \* "idle" before parseTasksFromSpeech ran, "done" after
    phrase,       \* the string cleanTask returned for the transcript
    likely,       \* the verdict of isLikelyTask on that string
    clock,        \* the day new Date() falls on, counted from 1970-01-01
    latest,       \* the last call of extractDueDateFromText: text and result
    earlier,      \* the call before the last one, kept when its text was the same
    storage,      \* the item AsyncStorage holds under "tasks"
    mount,        \* the mount-time effects of TaskProvider: load and saves
    crashed,      \* a TypeError left taskReducer
    hook,         \* useVoiceRecognition's state: isListening, transcript, error
    calls,        \* the invocations of stopListening: manual press and timer
    session       \* startListening, its timer and what the button delivered

vars ==
    <<tasks, searchQuery, filter, now, alert, voiceQueue, input, output, pc,
      phrase, likely, clock, latest, earlier, storage, mount, crashed,
      hook, calls, session>>

storeVars == <<tasks, searchQuery, filter, now, alert, voiceQueue>>
segVars == <<input, output, pc, phrase, likely>>
dateVars == <<clock, latest, earlier>>
mountVars == <<storage, mount, crashed>>
hookVars == <<hook, calls, session>>

(***************************************************************************)
(* Bounds                                                                  *)
(***************************************************************************)
MaxTasks == 3      \* tasks held by the store
MaxNow == 1        \* clock values 0..MaxNow
MaxFrags == 4      \* fragments concatenated into a transcript
MaxDays == 7       \* days the wall clock moves on from its first day

(***************************************************************************)
(* Characters and the String.prototype methods the code uses               *)
(***************************************************************************)
WhiteSpace == {" ", "\t"}

UpperCase == <<"A","B","C","D","E","F","G","H","I","J","K","L","M",
               "N","O","P","Q","R","S","T","U","V","W","X","Y","Z">>
LowerCase == <<"a","b","c","d","e","f","g","h","i","j","k","l","m",
               "n","o","p","q","r","s","t","u","v","w","x","y","z">>

IsSpace(c) == c \in WhiteSpace

toLowerCaseChar(c) ==
    IF \E i \in 1..26 : UpperCase[i] = c
    THEN LowerCase[CHOOSE i \in 1..26 : UpperCase[i] = c]
    ELSE c

toUpperCaseChar(c) ==
    IF \E i \in 1..26 : LowerCase[i] = c
    THEN UpperCase[CHOOSE i \in 1..26 : LowerCase[i] = c]
    ELSE c

toLowerCase(s) == [i \in 1..Len(s) |-> toLowerCaseChar(s[i])]

slice(s, from) == SubSeq(s, from, Len(s))

RECURSIVE trimStart(_)
trimStart(s) ==
    IF s # <<>> /\ IsSpace(Head(s)) THEN trimStart(Tail(s)) ELSE s

RECURSIVE trimEnd(_)
trimEnd(s) ==
    IF s # <<>> /\ IsSpace(s[Len(s)])
    THEN trimEnd(SubSeq(s, 1, Len(s) - 1))
    ELSE s

trim(s) == trimEnd(trimStart(s))

\* s has the literal p at index i (1-based)
startsWithAt(s, p, i) ==
    /\ i + Len(p) - 1 <= Len(s)
    /\ \A k \in 1..Len(p) : s[i + k - 1] = p[k]

\* the same, ignoring case (a literal under the regular-expression flag i)
matchAtIgnoreCase(s, p, i) ==
    /\ i + Len(p) - 1 <= Len(s)
    /\ \A k \in 1..Len(p) : toLowerCaseChar(s[i + k - 1]) = toLowerCaseChar(p[k])

endsWithIgnoreCase(s, p) ==
    Len(p) <= Len(s) /\ matchAtIgnoreCase(s, p, Len(s) - Len(p) + 1)

\* String.prototype.indexOf scan: 0 when p does not occur at or after i
RECURSIVE indexOfFrom(_, _, _)
indexOfFrom(s, p, i) ==
    IF i + Len(p) - 1 > Len(s) THEN 0
    ELSE IF startsWithAt(s, p, i) THEN i
    ELSE indexOfFrom(s, p, i + 1)

includes(s, p) == indexOfFrom(s, p, 1) # 0

\* Number.prototype.toString, radix 10
RECURSIVE numberToString(_)
numberToString(n) ==
    IF n < 10 THEN <<<<"0","1","2","3","4","5","6","7","8","9">>[n + 1]>>
    ELSE numberToString(n \div 10) \o numberToString(n % 10)

(***************************************************************************)
(* Task records (types/index.ts)                                           *)
(***************************************************************************)
Undefined == [kind |-> "undefined", time |-> 0, text |-> <<>>]
DateValue(t) == [kind |-> "date", time |-> t, text |-> <<>>]
StringValue(s) == [kind |-> "string", time |-> 0, text |-> s]

\* JavaScript truthiness of an optional field: a Date object is always
\* truthy, a string is truthy unless empty, undefined and null are falsy
Truthy(v) ==
    CASE v.kind = "date" -> TRUE
      [] v.kind = "string" -> v.text # <<>>
      [] OTHER -> FALSE

Task(id, title, description, dueDate, completed) ==
    [id |-> id, title |-> title, description |-> description,
     dueDate |-> dueDate, completed |-> completed]

(***************************************************************************)
(* taskReducer (contexts/TaskContext.tsx)                                  *)
(***************************************************************************)
\* a comparator that puts the tasks without a due date first
compareTasksUndatedFirst(a, b) ==
    IF ~Truthy(a.dueDate) /\ ~Truthy(b.dueDate) THEN 0
    ELSE IF ~Truthy(a.dueDate) THEN -1
    ELSE IF ~Truthy(b.dueDate) THEN 1
    ELSE a.dueDate.time - b.dueDate.time

\* the comparator handed to sort by ADD_TASK
compareTasks(a, b) ==
    IF ~Truthy(a.dueDate) /\ ~Truthy(b.dueDate) THEN 0
    ELSE IF ~Truthy(a.dueDate) THEN 1
    ELSE IF ~Truthy(b.dueDate) THEN -1
    ELSE a.dueDate.time - b.dueDate.time

\* an insertion step that is not stable: x goes in front of its equals
RECURSIVE insertUnstable(_, _)
insertUnstable(sorted, x) ==
    IF sorted # <<>> /\ compareTasks(sorted[Len(sorted)], x) >= 0
    THEN insertUnstable(SubSeq(sorted, 1, Len(sorted) - 1), x) \o <<sorted[Len(sorted)]>>
    ELSE sorted \o <<x>>

\* one insertion step of a stable sort: x goes behind the last element
\* (scanning from the right) that does not compare greater than x
RECURSIVE insertStable(_, _)
insertStable(sorted, x) ==
    IF sorted # <<>> /\ compareTasks(sorted[Len(sorted)], x) > 0
    THEN insertStable(SubSeq(sorted, 1, Len(sorted) - 1), x) \o <<sorted[Len(sorted)]>>
    ELSE sorted \o <<x>>

\* Array.prototype.sort with compareTasks (stable since ES2019)
RECURSIVE sortTasks(_)
sortTasks(a) ==
    IF a = <<>> THEN <<>>
    ELSE insertStable(sortTasks(SubSeq(a, 1, Len(a) - 1)), a[Len(a)])

\* an add whose spread leaves out state.tasks
reduceAddTaskAlone(ts, task) == sortTasks(<<task>>)

reduceAddTask(ts, task) == sortTasks(ts \o <<task>>)

\* a toggle that clears the flag instead of flipping it
reduceClearCompletion(ts, id) ==
    [i \in 1..Len(ts) |->
        IF ts[i].id = id THEN [ts[i] EXCEPT !.completed = FALSE] ELSE ts[i]]

\* a toggle that sets the flag instead of flipping it
reduceSetCompletion(ts, id) ==
    [i \in 1..Len(ts) |->
        IF ts[i].id = id THEN [ts[i] EXCEPT !.completed = TRUE] ELSE ts[i]]

reduceToggleTaskCompletion(ts, id) ==
    [i \in 1..Len(ts) |->
        IF ts[i].id = id
        THEN [ts[i] EXCEPT !.completed = ~ts[i].completed]
        ELSE ts[i]]

\* a delete whose filter keeps the matching tasks
reduceDeleteOthers(ts, id) ==
    LET Keep(t) == t.id = id IN SelectSeq(ts, Keep)

reduceDeleteTask(ts, id) ==
    LET Keep(t) == t.id # id IN SelectSeq(ts, Keep)

\* a search that compares without lower-casing
matchesSearchCaseSensitive(task, query) ==
    \/ includes(task.title, query)
    \/ /\ Truthy(task.description)
       /\ includes(task.description.text, query)

\* filteredTasks: the derived view of TaskProvider
matchesSearch(task, query) ==
    \/ includes(toLowerCase(task.title), toLowerCase(query))
    \/ /\ Truthy(task.description)
       /\ includes(toLowerCase(task.description.text), toLowerCase(query))

viewOf(ts, f, query) ==
    LET Keep(task) ==
            IF f = "completed" THEN matchesSearch(task, query) /\ task.completed
            ELSE IF f = "incomplete" THEN matchesSearch(task, query) /\ ~task.completed
            ELSE matchesSearch(task, query)
    IN SelectSeq(ts, Keep)

filteredTasks == viewOf(tasks, filter, searchQuery)

(***************************************************************************)
(* parseTasksFromText (components/VoiceInputButton.tsx)                    *)
(***************************************************************************)
separators ==
    << <<" ","a","n","d"," ","t","h","e","n"," ">>,
       <<" ","t","h","e","n"," ">>,
       <<" ","a","n","d"," ","a","l","s","o"," ">>,
       <<" ","a","l","s","o"," ">>,
       <<" ","p","l","u","s"," ">>,
       <<" ","a","s"," ","w","e","l","l"," ","a","s"," ">>,
       <<" ","f","o","l","l","o","w","e","d"," ","b","y"," ">>,
       <<","," ">> >>

taskPrefixes ==
    << <<"t","o"," ">>,
       <<"i"," ","n","e","e","d"," ","t","o"," ">>,
       <<"i"," ","h","a","v","e"," ","t","o"," ">>,
       <<"i"," ","m","u","s","t"," ">>,
       <<"i"," ","s","h","o","u","l","d"," ">>,
       <<"r","e","m","e","m","b","e","r"," ","t","o"," ">>,
       <<"d","o","n","'","t"," ","f","o","r","g","e","t"," ","t","o"," ">>,
       <<"m","a","k","e"," ","s","u","r","e"," ","t","o"," ">> >>

trailingConjunctions ==
    << <<" ","a","n","d">>, <<" ","t","h","e","n">>, <<" ","a","l","s","o">> >>

fillerWords ==
    { <<"u","m">>, <<"u","h">>, <<"e","r">>, <<"a","h">>, <<"h","m","m">>,
      <<"o","k","a","y">>, <<"o","k">>, <<"y","e","s">>, <<"n","o">> }

\* String.prototype.split(new RegExp(sep, "gi")) for a separator without
\* metacharacters: cut at the leftmost matches, left to right, no overlap
RECURSIVE splitLiteralFrom(_, _, _, _)
splitLiteralFrom(s, sep, i, start) ==
    IF i + Len(sep) - 1 > Len(s) THEN <<SubSeq(s, start, Len(s))>>
    ELSE IF matchAtIgnoreCase(s, sep, i)
         THEN <<SubSeq(s, start, i - 1)>>
                  \o splitLiteralFrom(s, sep, i + Len(sep), i + Len(sep))
         ELSE splitLiteralFrom(s, sep, i + 1, start)

splitLiteral(s, sep) == splitLiteralFrom(s, sep, 1, 1)

\* .split(separator).map(t => t.trim()).filter(t => t.length > 0)
splitTrimmed(task, sep) ==
    LET pieces == splitLiteral(task, sep)
        trimmed == [i \in 1..Len(pieces) |-> trim(pieces[i])]
    IN SelectSeq(trimmed, LAMBDA t : Len(t) > 0)

\* the inner loop: newTasks collects the pieces of every task
RECURSIVE splitAll(_, _)
splitAll(ts, sep) ==
    IF ts = <<>> THEN <<>>
    ELSE splitTrimmed(Head(ts), sep) \o splitAll(Tail(ts), sep)

\* the outer loop over the separators, from separator k on
RECURSIVE splitBySeparators(_, _)
splitBySeparators(ts, k) ==
    IF k > Len(separators) THEN ts
    ELSE splitBySeparators(splitAll(ts, separators[k]), k + 1)

\* task.replace(/^(to |i need to |...)/gi, "")
removeTaskPrefix(task) ==
    LET hits == {k \in 1..Len(taskPrefixes) : matchAtIgnoreCase(task, taskPrefixes[k], 1)}
    IN IF hits = {} THEN task
       ELSE LET k == CHOOSE h \in hits : \A g \in hits : h <= g
            IN slice(task, Len(taskPrefixes[k]) + 1)

\* task.replace(/( and| then| also)$/gi, "")
removeTrailingConjunction(task) ==
    LET hits == {k \in 1..Len(trailingConjunctions) :
                    endsWithIgnoreCase(task, trailingConjunctions[k])}
    IN IF hits = {} THEN task
       ELSE LET k == CHOOSE h \in hits : TRUE
            IN SubSeq(task, 1, Len(task) - Len(trailingConjunctions[k]))

\* task.charAt(0).toUpperCase() + task.slice(1)
capitalizeFirst(task) ==
    IF task = <<>> THEN <<>> ELSE <<toUpperCaseChar(task[1])>> \o Tail(task)

\* task.replace(/[.!]+$/, "")
RECURSIVE removeTrailingStops(_)
removeTrailingStops(task) ==
    IF task # <<>> /\ task[Len(task)] \in {".", "!"}
    THEN removeTrailingStops(SubSeq(task, 1, Len(task) - 1))
    ELSE task

\* the callback of .map in the clean-up
cleanVoiceTask(task) ==
    trim(removeTrailingStops(capitalizeFirst(
        removeTrailingConjunction(removeTaskPrefix(task)))))

\* a filter that drops the filler words only
keepVoiceTaskAnyLength(task) == toLowerCase(task) \notin fillerWords

\* the callback of .filter in the clean-up
keepVoiceTask(task) ==
    IF Len(task) < 3 THEN FALSE ELSE toLowerCase(task) \notin fillerWords

parseTasksFromText(text) ==
    IF trim(text) = <<>> THEN <<>>
    ELSE LET lowered == trim(toLowerCase(text))
             split == splitBySeparators(<<lowered>>, 1)
             cleaned == [i \in 1..Len(split) |-> cleanVoiceTask(split[i])]
         IN SelectSeq(cleaned, keepVoiceTask)

(***************************************************************************)
(* Date objects (lib/speechParser.ts uses new Date, getDate, setDate and   *)
(* getDay).  The time value of a Date is counted in days from 1970-01-01;  *)
(* the time of day, which setDate carries over unchanged, is left out.     *)
(***************************************************************************)
isLeapYear(y) == (y % 4 = 0 /\ y % 100 # 0) \/ y % 400 = 0

daysInYear(y) == IF isLeapYear(y) THEN 366 ELSE 365

\* m is the month as getMonth counts it, 0 for January
daysInMonth(y, m) ==
    IF m = 1 THEN (IF isLeapYear(y) THEN 29 ELSE 28)
    ELSE IF m \in {3, 5, 8, 10} THEN 30 ELSE 31

\* the year a day falls in, and the day's index within that year
RECURSIVE yearFromDay(_, _)
yearFromDay(y, n) ==
    IF n < daysInYear(y) THEN [year |-> y, rest |-> n]
    ELSE yearFromDay(y + 1, n - daysInYear(y))

\* the month a day of year y falls in, and the day's index within that month
RECURSIVE monthFromDay(_, _, _)
monthFromDay(y, m, n) ==
    IF n < daysInMonth(y, m) THEN [month |-> m, rest |-> n]
    ELSE monthFromDay(y, m + 1, n - daysInMonth(y, m))

\* the local year, month and day of the month of a time value
civilFromDay(t) ==
    LET yr == yearFromDay(1970, t)
        mo == monthFromDay(yr.year, 0, yr.rest)
    IN [year |-> yr.year, month |-> mo.month, date |-> mo.rest + 1]

RECURSIVE dayFromYear(_)
dayFromYear(y) == IF y = 1970 THEN 0 ELSE dayFromYear(y - 1) + daysInYear(y - 1)

RECURSIVE dayWithinYear(_, _)
dayWithinYear(y, m) ==
    IF m = 0 THEN 0 ELSE dayWithinYear(y, m - 1) + daysInMonth(y, m - 1)

\* MakeDay: the time value of day number date of month m of year y; a date
\* beyond the end of the month runs on into the following months
makeDay(y, m, date) == dayFromYear(y) + dayWithinYear(y, m) + date - 1

\* Date.prototype.getDate
getDate(d) == civilFromDay(d.time).date

\* Date.prototype.getDay: 0 for Sunday; 1970-01-01 was a Thursday
getDay(d) == (d.time + 4) % 7

\* Date.prototype.setDate
setDate(d, date) ==
    LET c == civilFromDay(d.time)
    IN DateValue(makeDay(c.year, c.month, date))

(***************************************************************************)
(* Inputs of the handlers                                                  *)
(***************************************************************************)
Null == [kind |-> "null", time |-> 0, text |-> <<>>]

\* the first day of the wall clock: 2024-12-26, a Thursday
FirstDay == makeDay(2024, 11, 26)

LastDay == FirstDay + MaxDays

\* no call of extractDueDateFromText yet
NoCall == [made |-> FALSE, text |-> <<>>, at |-> 0, result |-> Null]

\* AsyncStorage holds no item under "tasks": getItem resolves to null
NoItem == [kind |-> "null", tasks |-> <<>>]

\* the provider after a mount that found no item in storage
MountedEmpty ==
    /\ storage = NoItem
    /\ mount = [load |-> "done", loaded |-> NoItem, saves |-> <<>>,
                persisted |-> NoItem]
    /\ crashed = FALSE

\* stopListening not invoked
NotInvoked ==
    [pc |-> "idle", attempts |-> 0, completed |-> FALSE, error |-> "null",
     path |-> "none"]

\* the recognition hook as useState initialises it, nothing pressed yet
HookIdle ==
    /\ hook = [isListening |-> FALSE, transcript |-> <<>>, error |-> "null"]
    /\ calls = [c \in {"manual", "timer"} |-> NotInvoked]
    /\ session = [start |-> "idle", timer |-> "unset", error |-> "null",
                  config |-> "set", jobs |-> 0, delivered |-> <<>>]

\* what the form of AddTaskScreen can hold when "Add Task" is pressed
Form(title, description, dueDate) ==
    [title |-> title, description |-> description, dueDate |-> dueDate]

ManualForms ==
    { Form(<<>>, <<>>, Null),
      Form(<<" ","\t">>, <<"T","e","a">>, DateValue(0)),
      Form(<<"T","e","a">>, <<>>, Null),
      Form(<<"T","e","a">>, <<>>, DateValue(1)),
      Form(<<" ","m","i","l","k">>, <<"T","e","a">>, DateValue(0)) }

\* transcripts the recognition hook can deliver
VoiceTranscripts ==
    { <<"B","u","y"," ","t","e","a"," ","a","n","d"," ","t","h","e","n"," ",
        "c","a","l","l"," ","m","o","m",".">>,
      <<"c","a","l","l"," ","M","o","m","!">>,
      <<"u","m",","," ","t","o"," ",".">> }

\* Math.random().toString(36).substr(2, 9): a base-36 suffix
RandomSuffixes == { <<"k">>, <<"z">> }

SearchQueries == { <<>>, <<"T","E">> }
Filters == { "all", "completed", "incomplete" }

\* the ids a toggle or delete request can carry: the id of a stored task
\* (TaskItem's onToggle / onDelete) or an id that no task has
AbsentId == numberToString(MaxNow + 1)
RequestIds == { tasks[i].id : i \in 1..Len(tasks) } \cup { AbsentId }

(***************************************************************************)
(* The store and its handlers                                              *)
(***************************************************************************)
\* useReducer's initial state in TaskProvider
Init ==
    /\ tasks = <<>>
    /\ searchQuery = <<>>
    /\ filter = "all"
    /\ now = 0
    /\ alert = "none"
    /\ voiceQueue = <<>>
    /\ input = StringValue(<<>>)
    /\ output = <<>>
    /\ pc = "idle"
    /\ phrase = <<>>
    /\ likely = FALSE
    /\ clock = FirstDay
    /\ latest = NoCall
    /\ earlier = NoCall
    /\ MountedEmpty
    /\ HookIdle

\* Date.now() moves on
Tick ==
    /\ now < MaxNow
    /\ now' = now + 1
    /\ UNCHANGED <<tasks, searchQuery, filter, alert, voiceQueue>>
    /\ UNCHANGED <<segVars, dateVars, mountVars, hookVars>>

\* the task literal of handleAddTask, built when Date.now() returns t
manualTask(title, description, dueDate, t) ==
    Task(numberToString(t), title, StringValue(description),
         IF Truthy(dueDate) THEN dueDate ELSE Undefined, FALSE)

\* the task literal of handleVoiceTasksDetected, built when Date.now() returns t
voiceTask(title, suffix, t) ==
    Task(numberToString(t) \o suffix, title, Undefined, Undefined, FALSE)

\* a handler that tests the title without trimming it
HandleAddTaskUntrimmed(title, description, dueDate) ==
    /\ voiceQueue = <<>>
    /\ IF title = <<>>
       THEN /\ alert' = "Task title cannot be empty"
            /\ UNCHANGED tasks
       ELSE /\ Len(tasks) < MaxTasks
            /\ tasks' = reduceAddTask(tasks, manualTask(title, description, dueDate, now))
            /\ UNCHANGED alert
    /\ UNCHANGED <<searchQuery, filter, now, voiceQueue>>
    /\ UNCHANGED <<segVars, dateVars, mountVars, hookVars>>

\* AddTaskScreen.handleAddTask with the form holding title, description, dueDate
HandleAddTask(title, description, dueDate) ==
    /\ voiceQueue = <<>>
    /\ IF trim(title) = <<>>
       THEN /\ alert' = "Task title cannot be empty"
            /\ UNCHANGED tasks
       ELSE /\ Len(tasks) < MaxTasks
            /\ tasks' = reduceAddTask(tasks, manualTask(title, description, dueDate, now))
            /\ UNCHANGED alert
    /\ UNCHANGED <<searchQuery, filter, now, voiceQueue>>
    /\ UNCHANGED <<segVars, dateVars, mountVars, hookVars>>

\* the transcript effect of VoiceInputButton: parse, then onTasksDetected
\* (which runs up to its first await) or the "No Tasks Detected" alert
ProcessTranscript(transcript) ==
    /\ voiceQueue = <<>>
    /\ transcript # <<>>
    /\ LET detected == parseTasksFromText(transcript)
       IN IF Len(detected) > 0
          THEN /\ Len(tasks) + Len(detected) <= MaxTasks
               /\ \E suffix \in RandomSuffixes :
                      tasks' = reduceAddTask(tasks, voiceTask(Head(detected), suffix, now))
               /\ voiceQueue' = Tail(detected)
               /\ UNCHANGED alert
          ELSE /\ alert' = "No Tasks Detected"
               /\ UNCHANGED <<tasks, voiceQueue>>
    /\ UNCHANGED <<searchQuery, filter, now>>
    /\ UNCHANGED <<segVars, dateVars, mountVars, hookVars>>

\* handleVoiceTasksDetected resumes after an await and adds the next title
VoiceAddNext ==
    /\ voiceQueue # <<>>
    /\ \E suffix \in RandomSuffixes :
           tasks' = reduceAddTask(tasks, voiceTask(Head(voiceQueue), suffix, now))
    /\ voiceQueue' = Tail(voiceQueue)
    /\ UNCHANGED <<searchQuery, filter, now, alert>>
    /\ UNCHANGED <<segVars, dateVars, mountVars, hookVars>>

ToggleTaskCompletion(id) ==
    /\ voiceQueue = <<>>
    /\ tasks' = reduceToggleTaskCompletion(tasks, id)
    /\ UNCHANGED <<searchQuery, filter, now, alert, voiceQueue>>
    /\ UNCHANGED <<segVars, dateVars, mountVars, hookVars>>

DeleteTask(id) ==
    /\ voiceQueue = <<>>
    /\ tasks' = reduceDeleteTask(tasks, id)
    /\ UNCHANGED <<searchQuery, filter, now, alert, voiceQueue>>
    /\ UNCHANGED <<segVars, dateVars, mountVars, hookVars>>

SetSearchQuery(query) ==
    /\ voiceQueue = <<>>
    /\ searchQuery' = query
    /\ UNCHANGED <<tasks, filter, now, alert, voiceQueue>>
    /\ UNCHANGED <<segVars, dateVars, mountVars, hookVars>>

SetFilter(f) ==
    /\ voiceQueue = <<>>
    /\ filter' = f
    /\ UNCHANGED <<tasks, searchQuery, now, alert, voiceQueue>>
    /\ UNCHANGED <<segVars, dateVars, mountVars, hookVars>>

\* the creation paths: manual entry and voice entry under a running clock
Next ==
    \/ Tick
    \/ \E form \in ManualForms :
           HandleAddTask(form.title, form.description, form.dueDate)
    \/ \E transcript \in VoiceTranscripts : ProcessTranscript(transcript)
    \/ VoiceAddNext

Spec == Init /\ [][Next]_vars

(***************************************************************************)
(* Voice entry alone, on the transcripts the README dictates               *)
(***************************************************************************)
ReadmeTranscript ==
    <<"B","u","y"," ","g","r","o","c","e","r","i","e","s"," ","a","n","d"," ","c","a","l","l"," ","m","o","m"," ","t","h","e","n"," ","f","i","n","i","s","h"," ","r","e","p","o","r","t">>

ReadmeTranscripts ==
    { ReadmeTranscript,
      <<"B","u","y"," ","p","r","o","v","i","s","i","o","n","s"," ","a","n","d"," ","c","a","l","l"," ","m","o","m">> }

NextVoice ==
    \/ Tick
    \/ \E transcript \in ReadmeTranscripts : ProcessTranscript(transcript)
    \/ VoiceAddNext

SpecVoice == Init /\ [][NextVoice]_vars

(***************************************************************************)
(* TaskListScreen working on a filled store: toggle, delete, search and    *)
(* filter, starting from the stores that MaxTasks creations leave behind   *)
(***************************************************************************)
\* tasks as the two creation paths build them, with the clock value of
\* their creation (two of them share an id)
Creation(at, task) == [at |-> at, task |-> task]

Creations ==
    { Creation(0, manualTask(<<"T","e","a">>, <<>>, DateValue(1), 0)),
      Creation(0, manualTask(<<" ","m","i","l","k">>, <<"T","e","a">>, DateValue(0), 0)),
      Creation(1, manualTask(<<"T","e","a">>, <<>>, Null, 1)),
      Creation(0, voiceTask(<<"B","u","y"," ","t","e","a">>, <<"k">>, 0)),
      Creation(1, voiceTask(<<"C","a","l","l"," ","m","o","m">>, <<"z">>, 1)) }

\* ADD_TASK dispatched for each task of a sequence, starting from useReducer's
\* initial state
RECURSIVE addAll(_, _)
addAll(ts, created) ==
    IF created = <<>> THEN ts
    ELSE addAll(reduceAddTask(ts, Head(created)), Tail(created))

\* the stores MaxTasks creations leave behind, the clock never going back
FilledStores ==
    { addAll(<<>>, [i \in 1..MaxTasks |-> c[i].task]) :
        c \in { h \in [1..MaxTasks -> Creations] :
                   \A i \in 1..(MaxTasks - 1) : h[i].at <= h[i + 1].at } }

InitEdit ==
    /\ tasks \in FilledStores
    /\ searchQuery = <<>>
    /\ filter = "all"
    /\ now = 0
    /\ alert = "none"
    /\ voiceQueue = <<>>
    /\ input = StringValue(<<>>)
    /\ output = <<>>
    /\ pc = "idle"
    /\ phrase = <<>>
    /\ likely = FALSE
    /\ clock = FirstDay
    /\ latest = NoCall
    /\ earlier = NoCall
    /\ MountedEmpty
    /\ HookIdle

NextEdit ==
    \/ \E id \in RequestIds : ToggleTaskCompletion(id)
    \/ \E id \in RequestIds : DeleteTask(id)
    \/ \E query \in SearchQueries : SetSearchQuery(query)
    \/ \E f \in Filters : SetFilter(f)

SpecEdit == InitEdit /\ [][NextEdit]_vars

(***************************************************************************)
(* TaskProvider's mount (contexts/TaskContext.tsx): the load effect, the   *)
(* save effect and the item AsyncStorage holds under "tasks"               *)
(***************************************************************************)
\* the milliseconds of toISOString: three digits
pad3(n) ==
    IF n < 10 THEN <<"0","0">> \o numberToString(n)
    ELSE IF n < 100 THEN <<"0">> \o numberToString(n)
    ELSE numberToString(n)

\* Date.prototype.toISOString, for a time within the first second of 1970
toISOString(d) ==
    <<"1","9","7","0","-","0","1","-","0","1","T","0","0",":","0","0",":","0","0",".">> \o pad3(d.time) \o <<"Z">>

\* JSON.stringify of one task: a Date has toJSON and is written as its ISO
\* string; undefined members are left out, so they read back as undefined
stringifyTask(task) ==
    [task EXCEPT !.dueDate = IF @.kind = "date"
                             THEN StringValue(toISOString(@))
                             ELSE @]

\* JSON.stringify(state.tasks): the item is a non-empty string, kept here
\* as the array its text denotes
JSONstringify(ts) ==
    [kind |-> "string", tasks |-> [i \in 1..Len(ts) |-> stringifyTask(ts[i])]]

\* JSON.parse(storedTasks): the array the text denotes; a due date written
\* as a string is read as a string
JSONparse(item) == item.tasks

\* what an earlier run of the app can have left in storage: nothing, or the
\* saved store after fewer than MaxTasks creations
StoredItems ==
    { NoItem } \cup
    { JSONstringify(addAll(<<>>, [i \in 1..n |-> c[i].task])) :
        c \in { h \in [1..(MaxTasks - 1) -> Creations] :
                   \A i \in 1..(MaxTasks - 2) : h[i].at <= h[i + 1].at },
        n \in 0..(MaxTasks - 1) }

\* TaskProvider after its first render: both mount effects have run, so
\* getItem and the setItem of the initial empty collection are outstanding
InitMount ==
    /\ tasks = <<>>
    /\ searchQuery = <<>>
    /\ filter = "all"
    /\ now = 0
    /\ alert = "none"
    /\ voiceQueue = <<>>
    /\ input = StringValue(<<>>)
    /\ output = <<>>
    /\ pc = "idle"
    /\ phrase = <<>>
    /\ likely = FALSE
    /\ clock = FirstDay
    /\ latest = NoCall
    /\ earlier = NoCall
    /\ storage \in StoredItems
    /\ mount = [load |-> "issued", loaded |-> NoItem,
                saves |-> <<JSONstringify(<<>>)>>, persisted |-> storage]
    /\ crashed = FALSE
    /\ HookIdle

\* AsyncStorage serves the getItem("tasks") of loadTasks
GetItemResolves ==
    /\ mount.load = "issued"
    /\ mount' = [mount EXCEPT !.load = "read", !.loaded = storage]
    /\ UNCHANGED <<storage, crashed>>
    /\ UNCHANGED <<storeVars, segVars, dateVars, hookVars>>

\* loadTasks after its await: SET_TASKS with the parsed item if the item is
\* truthy; the new tasks array makes the save effect run again
LoadTasks ==
    /\ mount.load = "read"
    /\ IF mount.loaded.kind = "string"
       THEN /\ tasks' = JSONparse(mount.loaded)
            /\ mount' = [mount EXCEPT !.load = "done",
                                      !.saves = Append(@, JSONstringify(tasks'))]
       ELSE /\ mount' = [mount EXCEPT !.load = "done"]
            /\ UNCHANGED tasks
    /\ UNCHANGED <<searchQuery, filter, now, alert, voiceQueue>>
    /\ UNCHANGED <<storage, crashed>>
    /\ UNCHANGED <<segVars, dateVars, hookVars>>

\* AsyncStorage serves the oldest outstanding setItem("tasks", ...)
SetItemResolves ==
    /\ mount.saves # <<>>
    /\ storage' = Head(mount.saves)
    /\ mount' = [mount EXCEPT !.saves = Tail(@)]
    /\ UNCHANGED crashed
    /\ UNCHANGED <<storeVars, segVars, dateVars, hookVars>>

\* compareTasks calls getTime on both due dates once both are truthy: a
\* TypeError unless both are Date objects
compareThrows(a, b) ==
    /\ Truthy(a.dueDate)
    /\ Truthy(b.dueDate)
    /\ (a.dueDate.kind # "date" \/ b.dueDate.kind # "date")

\* sort has to compare a task that has a due date with another task that
\* has one (the comparisons with tasks without a due date do not tell such
\* tasks apart), so it throws as soon as one such pair makes compareTasks throw
sortThrows(a) ==
    \E i, j \in 1..Len(a) : i # j /\ compareThrows(a[i], a[j])

\* addTask once the initial load has completed: ADD_TASK, then the save
\* effect; a TypeError of the comparator leaves the reducer
AddTask(task) ==
    /\ mount.load = "done"
    /\ ~crashed
    /\ Len(tasks) < MaxTasks
    /\ IF sortThrows(tasks \o <<task>>)
       THEN /\ crashed' = TRUE
            /\ UNCHANGED <<tasks, mount>>
       ELSE /\ tasks' = reduceAddTask(tasks, task)
            /\ mount' = [mount EXCEPT !.saves = Append(@, JSONstringify(tasks'))]
            /\ UNCHANGED crashed
    /\ UNCHANGED <<searchQuery, filter, now, alert, voiceQueue>>
    /\ UNCHANGED storage
    /\ UNCHANGED <<segVars, dateVars, hookVars>>

NextMount ==
    \/ GetItemResolves
    \/ LoadTasks
    \/ SetItemResolves
    \/ \E form \in ManualForms :
           /\ trim(form.title) # <<>>
           /\ AddTask(manualTask(form.title, form.description, form.dueDate, now))

SpecMount == InitMount /\ [][NextMount]_vars

(***************************************************************************)
(* hooks/useVoiceRecognition.ts and the transcript effect of               *)
(* VoiceInputButton, on a device (the expo-audio branch): one session of   *)
(* one startListening, one press on stop and the auto-stop timer           *)
(***************************************************************************)
\* the polls one stopListening makes at most
MaxAttempts == 20

\* the two invocations of stopListening: the press on the button while
\* listening, and the callback of the timer startListening sets
Callers == { "manual", "timer" }

\* what audioRecorder.stop() leaves: a recording uri, no uri, or a rejection
RecorderOutcomes == { "uri", "nouri", "throws" }

\* answers of the upload and of the job request
ServiceAnswers == { "ok", "empty", "throws" }

\* pollingData.text of a completed transcription
ServiceTexts ==
    { <<"c","a","l","l"," ","M","o","m","!"," ">>,
      <<"u","m">>,
      <<" ">> }

\* pollingData.error of a failed transcription; "undefined" when absent
ServiceErrors == { "undefined", "Download error" }

\* expoConfig.extra holds the AssemblyAI key and url, or neither
InitListen ==
    /\ tasks = <<>>
    /\ searchQuery = <<>>
    /\ filter = "all"
    /\ now = 0
    /\ alert = "none"
    /\ voiceQueue = <<>>
    /\ input = StringValue(<<>>)
    /\ output = <<>>
    /\ pc = "idle"
    /\ phrase = <<>>
    /\ likely = FALSE
    /\ clock = FirstDay
    /\ latest = NoCall
    /\ earlier = NoCall
    /\ MountedEmpty
    /\ hook = [isListening |-> FALSE, transcript |-> <<>>, error |-> "null"]
    /\ calls = [c \in Callers |-> NotInvoked]
    /\ \E config \in { "set", "missing" } :
           session = [start |-> "idle", timer |-> "unset", error |-> "null",
                      config |-> config, jobs |-> 0, delivered |-> <<>>]

\* startListening up to its await; the stopListening its timer will call is
\* the one of this render, which closes over this render's error
StartListening ==
    /\ session.start = "idle"
    /\ session' = [session EXCEPT !.start = "preparing", !.error = hook.error]
    /\ hook' = [hook EXCEPT !.error = "null", !.transcript = <<>>]
    /\ UNCHANGED calls
    /\ UNCHANGED <<storeVars, segVars, dateVars, mountVars>>

\* prepareToRecordAsync settles: record, setIsListening(true) and the
\* 10 second timer, or the catch of recordError
PrepareReturns ==
    /\ session.start = "preparing"
    /\ \/ /\ hook' = [hook EXCEPT !.isListening = TRUE]
          /\ session' = [session EXCEPT !.start = "recording", !.timer = "armed"]
       \/ /\ hook' = [hook EXCEPT !.error = "Failed to start recording",
                                   !.isListening = FALSE]
          /\ session' = [session EXCEPT !.start = "failed"]
    /\ UNCHANGED calls
    /\ UNCHANGED <<storeVars, segVars, dateVars, mountVars>>

\* stopListening entered with the error its closure sees, up to the await
\* of audioRecorder.stop()
invoke(captured) ==
    [pc |-> "stopping", attempts |-> 0, completed |-> FALSE,
     error |-> captured, path |-> "none"]

\* handlePress while isListening: stopListening of the current render
StopPressed ==
    /\ hook.isListening
    /\ calls["manual"].pc = "idle"
    /\ calls' = [calls EXCEPT !["manual"] = invoke(hook.error)]
    /\ UNCHANGED <<hook, session>>
    /\ UNCHANGED <<storeVars, segVars, dateVars, mountVars>>

\* the timer of startListening expires; nothing clears it
TimerFires ==
    /\ session.timer = "armed"
    /\ session' = [session EXCEPT !.timer = "fired"]
    /\ calls' = [calls EXCEPT !["timer"] = invoke(session.error)]
    /\ UNCHANGED hook
    /\ UNCHANGED <<storeVars, segVars, dateVars, mountVars>>

\* a return of stopListening from inside the try blocks: setIsListening(false)
\* of line 246 is not reached
returned(c, path) == [calls EXCEPT ![c].pc = "done", ![c].path = path]

\* audioRecorder.stop() settles; then the uri and the configuration tests
RecorderStops(c) ==
    /\ calls[c].pc = "stopping"
    /\ \E outcome \in RecorderOutcomes :
           CASE outcome = "throws" ->
                    /\ hook' = [hook EXCEPT !.error = "Failed to stop recording",
                                            !.isListening = FALSE]
                    /\ calls' = returned(c, "stopError")
             [] outcome = "nouri" ->
                    /\ hook' = [hook EXCEPT !.error = "Recording URI not available"]
                    /\ calls' = returned(c, "noUri")
             [] OTHER ->
                    IF session.config = "missing"
                    THEN /\ hook' = [hook EXCEPT
                                        !.error = "AssemblyAI API key or API url is missing"]
                         /\ calls' = returned(c, "noConfig")
                    ELSE /\ calls' = [calls EXCEPT ![c].pc = "uploading"]
                         /\ UNCHANGED hook
    /\ UNCHANGED session
    /\ UNCHANGED <<storeVars, segVars, dateVars, mountVars>>

\* the catch of apiError, then setIsListening(false)
apiErrorCaught ==
    [hook EXCEPT !.error = "Failed to transcribe audio", !.isListening = FALSE]

\* Step 1: the upload answers
UploadReturns(c) ==
    /\ calls[c].pc = "uploading"
    /\ \E answer \in ServiceAnswers :
           CASE answer = "throws" ->
                    /\ hook' = apiErrorCaught
                    /\ calls' = returned(c, "apiError")
             [] answer = "empty" ->
                    /\ hook' = [hook EXCEPT
                                   !.error = "Failed to upload audio to AssemblyAI"]
                    /\ calls' = returned(c, "noUpload")
             [] OTHER ->
                    /\ calls' = [calls EXCEPT ![c].pc = "requesting"]
                    /\ UNCHANGED hook
    /\ UNCHANGED session
    /\ UNCHANGED <<storeVars, segVars, dateVars, mountVars>>

\* Step 2: the transcription request answers; an id is a job created
JobReturns(c) ==
    /\ calls[c].pc = "requesting"
    /\ \E answer \in ServiceAnswers :
           CASE answer = "throws" ->
                    /\ hook' = apiErrorCaught
                    /\ calls' = returned(c, "apiError")
                    /\ UNCHANGED session
             [] answer = "empty" ->
                    /\ hook' = [hook EXCEPT
                                   !.error = "Failed to create transcription job"]
                    /\ calls' = returned(c, "noJob")
                    /\ UNCHANGED session
             [] OTHER ->
                    /\ calls' = [calls EXCEPT ![c].pc = "polling"]
                    /\ session' = [session EXCEPT !.jobs = @ + 1]
                    /\ UNCHANGED hook
    /\ UNCHANGED <<storeVars, segVars, dateVars, mountVars>>

\* the statements behind the loop: the timeout test on the closure's error,
\* then setIsListening(false)
afterLoop(h, completed, captured) ==
    [h EXCEPT !.error = IF ~completed /\ captured = "null"
                        THEN "Transcription timed out"
                        ELSE @,
              !.isListening = FALSE]

\* Step 3, a poll answers "completed" with a text
PollCompleted(c) ==
    /\ calls[c].pc = "polling"
    /\ \E text \in ServiceTexts :
           hook' = afterLoop([hook EXCEPT !.transcript = trim(text)],
                             TRUE, calls[c].error)
    /\ calls' = [calls EXCEPT ![c].pc = "done", ![c].completed = TRUE,
                              ![c].path = "completed"]
    /\ UNCHANGED session
    /\ UNCHANGED <<storeVars, segVars, dateVars, mountVars>>

\* Step 3, a poll answers "error"
PollFailed(c) ==
    /\ calls[c].pc = "polling"
    /\ \E e \in ServiceErrors :
           hook' = afterLoop([hook EXCEPT
                                !.error = IF e = "undefined"
                                          THEN "Transcription failed" ELSE e],
                             FALSE, calls[c].error)
    /\ calls' = [calls EXCEPT ![c].pc = "done", ![c].path = "pollError"]
    /\ UNCHANGED session
    /\ UNCHANGED <<storeVars, segVars, dateVars, mountVars>>

\* Step 3, a poll answers any other status: attempts++, and the loop ends
\* once attempts reaches MaxAttempts
PollPending(c) ==
    /\ calls[c].pc = "polling"
    /\ IF calls[c].attempts + 1 < MaxAttempts
       THEN /\ calls' = [calls EXCEPT ![c].attempts = @ + 1]
            /\ UNCHANGED hook
       ELSE /\ calls' = [calls EXCEPT ![c].attempts = @ + 1, ![c].pc = "done",
                                      ![c].path = "exhausted"]
            /\ hook' = afterLoop(hook, FALSE, calls[c].error)
    /\ UNCHANGED session
    /\ UNCHANGED <<storeVars, segVars, dateVars, mountVars>>

\* Step 3, a poll rejects
PollThrows(c) ==
    /\ calls[c].pc = "polling"
    /\ hook' = apiErrorCaught
    /\ calls' = returned(c, "apiError")
    /\ UNCHANGED session
    /\ UNCHANGED <<storeVars, segVars, dateVars, mountVars>>

\* the effect of VoiceInputButton on [transcript, isListening]: the tasks
\* detected go to onTasksDetected, then resetTranscript
TranscriptEffect ==
    /\ ~hook.isListening
    /\ hook.transcript # <<>>
    /\ LET newTasks == parseTasksFromText(hook.transcript)
       IN IF Len(newTasks) > 0
          THEN /\ session' = [session EXCEPT !.delivered = Append(@, newTasks)]
               /\ UNCHANGED alert
          ELSE /\ alert' = "No Tasks Detected"
               /\ UNCHANGED session
    /\ hook' = [hook EXCEPT !.transcript = <<>>]
    /\ UNCHANGED calls
    /\ UNCHANGED <<tasks, searchQuery, filter, now, voiceQueue>>
    /\ UNCHANGED <<segVars, dateVars, mountVars>>

NextListen ==
    \/ StartListening
    \/ PrepareReturns
    \/ StopPressed
    \/ TimerFires
    \/ \E c \in Callers : RecorderStops(c)
    \/ \E c \in Callers : UploadReturns(c)
    \/ \E c \in Callers : JobReturns(c)
    \/ \E c \in Callers : PollCompleted(c)
    \/ \E c \in Callers : PollFailed(c)
    \/ \E c \in Callers : PollPending(c)
    \/ \E c \in Callers : PollThrows(c)
    \/ TranscriptEffect

SpecListen == InitListen /\ [][NextListen]_vars

(***************************************************************************)
(* lib/speechParser.ts                                                     *)
(***************************************************************************)
taskVerbs ==
    { <<"b","u","y">>, <<"c","a","l","l">>, <<"e","m","a","i","l">>,
      <<"s","e","n","d">>, <<"w","r","i","t","e">>, <<"r","e","a","d">>,
      <<"s","c","h","e","d","u","l","e">>, <<"b","o","o","k">>,
      <<"p","l","a","n">>, <<"o","r","g","a","n","i","z","e">>,
      <<"f","i","n","i","s","h">>, <<"c","o","m","p","l","e","t","e">>,
      <<"s","u","b","m","i","t">>, <<"r","e","v","i","e","w">>,
      <<"c","h","e","c","k">>, <<"u","p","d","a","t","e">>, <<"f","i","x">>,
      <<"c","r","e","a","t","e">>, <<"d","e","l","e","t","e">>,
      <<"p","r","e","p","a","r","e">>, <<"m","a","k","e">>, <<"d","o">>,
      <<"g","e","t">>, <<"p","i","c","k">>, <<"d","r","o","p">>,
      <<"t","a","k","e">>, <<"r","e","m","i","n","d">>,
      <<"c","o","n","t","a","c","t">>, <<"m","e","e","t">>,
      <<"v","i","s","i","t">>, <<"p","a","y">>, <<"o","r","d","e","r">> }

pronouns ==
    { <<"i">>, <<"y","o","u">>, <<"h","e">>, <<"s","h","e">>, <<"i","t">>,
      <<"w","e">>, <<"t","h","e","y">> }

\* an alternation that lacks "then"
conjunctionsWithoutThen ==
    << <<"a","n","d">>, <<"a","l","s","o">>, <<"p","l","u","s">> >>

\* the alternation (and|also|plus|then)
conjunctions ==
    << <<"a","n","d">>, <<"a","l","s","o">>, <<"p","l","u","s">>,
       <<"t","h","e","n">> >>

\* index of the first character at or after i that is not white space
RECURSIVE skipSpaces(_, _)
skipSpaces(s, i) ==
    IF i <= Len(s) /\ IsSpace(s[i]) THEN skipSpaces(s, i + 1) ELSE i

\* length of the conjunction word that s has at index i, 0 when none
conjunctionAt(s, i) ==
    LET hits == {k \in 1..Len(conjunctions) : matchAtIgnoreCase(s, conjunctions[k], i)}
    IN IF hits = {} THEN 0
       ELSE Len(conjunctions[CHOOSE k \in hits : \A g \in hits : k <= g])

\* .replace(/\s+/g, ' ')
RECURSIVE collapseSpaces(_)
collapseSpaces(s) ==
    IF s = <<>> THEN <<>>
    ELSE IF IsSpace(Head(s))
         THEN <<" ">> \o collapseSpaces(slice(s, skipSpaces(s, 1)))
         ELSE <<Head(s)>> \o collapseSpaces(Tail(s))

\* .replace(/^(and|also|plus|then)\s+/i, '')
removeLeadingConjunction(s) ==
    LET n == conjunctionAt(s, 1)
    IN IF n > 0 /\ n < Len(s) /\ IsSpace(s[n + 1])
       THEN slice(s, skipSpaces(s, n + 1))
       ELSE s

\* .replace(/\s+(and|also|plus|then)$/i, '')
removeTrailingConjunctionWord(s) ==
    LET hits == {k \in 1..Len(conjunctions) :
                    /\ Len(conjunctions[k]) < Len(s)
                    /\ endsWithIgnoreCase(s, conjunctions[k])
                    /\ IsSpace(s[Len(s) - Len(conjunctions[k])])}
    IN IF hits = {} THEN s
       ELSE LET k == CHOOSE h \in hits : TRUE
            IN trimEnd(SubSeq(s, 1, Len(s) - Len(conjunctions[k])))

\* .replace(/^[,;]\s*/, '')
removeLeadingPunctuation(s) ==
    IF s # <<>> /\ Head(s) \in {",", ";"} THEN slice(s, skipSpaces(s, 2)) ELSE s

\* .replace(/\s*[,;]$/, '')
removeTrailingPunctuation(s) ==
    IF s # <<>> /\ s[Len(s)] \in {",", ";"}
    THEN trimEnd(SubSeq(s, 1, Len(s) - 1))
    ELSE s

cleanTask(task) ==
    capitalizeFirst(trim(removeTrailingPunctuation(removeLeadingPunctuation(
        removeTrailingConjunctionWord(removeLeadingConjunction(
            collapseSpaces(trim(task))))))))

\* String.prototype.split(/\s+/)
RECURSIVE splitSpacesFrom(_, _, _)
splitSpacesFrom(s, i, start) ==
    IF i > Len(s) THEN <<SubSeq(s, start, Len(s))>>
    ELSE IF IsSpace(s[i])
         THEN <<SubSeq(s, start, i - 1)>>
                  \o splitSpacesFrom(s, skipSpaces(s, i), skipSpaces(s, i))
         ELSE splitSpacesFrom(s, i + 1, start)

splitSpaces(s) == splitSpacesFrom(s, 1, 1)

\* a classifier that knows the task verbs only
isLikelyTaskVerbsOnly(text) ==
    IF text = <<>> \/ Len(text) < 3 THEN FALSE
    ELSE splitSpaces(toLowerCase(text))[1] \in taskVerbs

\* a classifier that compares the first word as it is written
isLikelyTaskCaseSensitive(text) ==
    IF text = <<>> \/ Len(text) < 3 THEN FALSE
    ELSE LET words == splitSpaces(text)
             firstWord == words[1]
         IN IF firstWord \in taskVerbs THEN TRUE
            ELSE IF Len(words) >= 3 THEN TRUE
            ELSE IF firstWord \notin pronouns /\ Len(words) >= 2 THEN TRUE
            ELSE FALSE

isLikelyTask(text) ==
    IF text = <<>> \/ Len(text) < 3 THEN FALSE
    ELSE LET words == splitSpaces(toLowerCase(text))
             firstWord == words[1]
         IN IF firstWord \in taskVerbs THEN TRUE
            ELSE IF Len(words) >= 3 THEN TRUE
            ELSE IF firstWord \notin pronouns /\ Len(words) >= 2 THEN TRUE
            ELSE FALSE

\* index of the first character at or after i that is not one of . ! ;
RECURSIVE skipStops(_, _)
skipStops(s, i) ==
    IF i <= Len(s) /\ s[i] \in {".", "!", ";"} THEN skipStops(s, i + 1) ELSE i

\* String.prototype.split(/[.!;]+/)
RECURSIVE splitStopsFrom(_, _, _)
splitStopsFrom(s, i, start) ==
    IF i > Len(s) THEN <<SubSeq(s, start, Len(s))>>
    ELSE IF s[i] \in {".", "!", ";"}
         THEN <<SubSeq(s, start, i - 1)>>
                  \o splitStopsFrom(s, skipStops(s, i), skipStops(s, i))
         ELSE splitStopsFrom(s, i + 1, start)

\* Step 1: the sentences
splitSentences(transcript) ==
    LET pieces == splitStopsFrom(transcript, 1, 1)
        trimmed == [i \in 1..Len(pieces) |-> trim(pieces[i])]
    IN SelectSeq(trimmed, LAMBDA t : Len(t) > 0)

\* a match of the pattern without its leading \s+
conjunctionMatchEndNoLeadingSpace(s, i) ==
    LET n == conjunctionAt(s, i)
    IN IF i <= Len(s) /\ n > 0 /\ i + n <= Len(s) /\ IsSpace(s[i + n])
       THEN skipSpaces(s, i + n)
       ELSE 0

\* index just behind a match of /\s+(and|also|plus|then)\s+/i that starts
\* at index i, 0 when the pattern does not match there
conjunctionMatchEnd(s, i) ==
    IF i > Len(s) \/ ~IsSpace(s[i]) THEN 0
    ELSE LET j == skipSpaces(s, i)
             n == conjunctionAt(s, j)
         IN IF n > 0 /\ j + n <= Len(s) /\ IsSpace(s[j + n])
            THEN skipSpaces(s, j + n)
            ELSE 0

\* sentence.split(conjunctionPattern) without the captured conjunctions
\* (the elements at even indexes, counted from 0)
RECURSIVE splitConjunctionsFrom(_, _, _)
splitConjunctionsFrom(s, i, start) ==
    IF i > Len(s) THEN <<SubSeq(s, start, Len(s))>>
    ELSE LET e == conjunctionMatchEnd(s, i)
         IN IF e > 0
            THEN <<SubSeq(s, start, i - 1)>> \o splitConjunctionsFrom(s, e, e)
            ELSE splitConjunctionsFrom(s, i + 1, start)

candidateTasksOf(sentence) == splitConjunctionsFrom(sentence, 1, 1)

andWord == <<" ","a","n","d"," ">>

\* a loop that pushes every candidate and appends none
RECURSIVE addCandidatesNoMerge(_, _)
addCandidatesNoMerge(acc, candidates) ==
    IF candidates = <<>> THEN acc
    ELSE addCandidatesNoMerge(Append(acc, cleanTask(Head(candidates))),
                              Tail(candidates))

\* candidateTasks.forEach(...) on the tasks array collected so far
RECURSIVE addCandidates(_, _)
addCandidates(acc, candidates) ==
    IF candidates = <<>> THEN acc
    ELSE LET cleaned == cleanTask(Head(candidates))
             next == IF cleaned # <<>> /\ isLikelyTask(cleaned)
                     THEN Append(acc, cleaned)
                     ELSE IF Len(acc) > 0
                          THEN [acc EXCEPT ![Len(acc)] = @ \o andWord \o cleaned]
                          ELSE Append(acc, cleaned)
         IN addCandidates(next, Tail(candidates))

\* Step 2: sentences.forEach(...)
RECURSIVE addSentences(_, _)
addSentences(acc, sentences) ==
    IF sentences = <<>> THEN acc
    ELSE LET sentence == Head(sentences)
             candidateTasks == candidateTasksOf(sentence)
             next == IF Len(candidateTasks) = 1
                     THEN Append(acc, cleanTask(sentence))
                     ELSE addCandidates(acc, candidateTasks)
         IN addSentences(next, Tail(sentences))

\* task.split(',').map(p => p.trim()).filter(p => p.length > 0)
commaParts(task) == splitTrimmed(task, <<",">>)

\* Step 3: the comma-separated lists
RECURSIVE expandCommas(_)
expandCommas(ts) ==
    IF ts = <<>> THEN <<>>
    ELSE LET parts == commaParts(Head(ts))
             expanded ==
                 IF Len(parts) > 1 /\ Len(SelectSeq(parts, isLikelyTask)) > 1
                 THEN [i \in 1..Len(parts) |-> cleanTask(parts[i])]
                 ELSE <<Head(ts)>>
         IN expanded \o expandCommas(Tail(ts))

\* a final step that drops the empty entries but not the repeated ones
finalizeTasksKeepRepeats(expandedTasks) ==
    LET self == [i \in 1..Len(expandedTasks) |-> cleanTask(expandedTasks[i])]
    IN SelectSeq(self, LAMBDA t : Len(t) > 0)

\* Step 4: .map(t => cleanTask(t)).filter((t, index, self) => ...)
finalizeTasks(expandedTasks) ==
    LET self == [i \in 1..Len(expandedTasks) |-> cleanTask(expandedTasks[i])]
        kept == {i \in 1..Len(self) :
                    Len(self[i]) > 0 /\ \A j \in 1..(i - 1) : self[j] # self[i]}
        F[i \in 0..Len(self)] ==
            IF i = 0 THEN <<>>
            ELSE IF i \in kept THEN Append(F[i - 1], self[i]) ELSE F[i - 1]
    IN F[Len(self)]

\* transcript is a string, null or undefined
parseTasksFromSpeech(transcript) ==
    IF ~Truthy(transcript) \/ trim(transcript.text) = <<>> THEN <<>>
    ELSE finalizeTasks(expandCommas(
             addSentences(<<>>, splitSentences(transcript.text))))

(***************************************************************************)
(* parseTasksFromSpeech applied to bounded transcripts                     *)
(***************************************************************************)
Fragments ==
    { <<"b","u","y">>, <<"i","t">>, <<" ">>, <<"\t">>, <<",">>, <<".">>, <<";">>,
      <<" ","a","n","d"," ">>, <<"T","h","e","n"," ">> }

RECURSIVE concatAll(_)
concatAll(fs) == IF fs = <<>> THEN <<>> ELSE Head(fs) \o concatAll(Tail(fs))

\* the transcripts of the documented examples, and three more: a list of
\* nouns, an address with a comma, and two sentences
ExampleTranscripts ==
    { <<"B","u","y"," ","g","r","o","c","e","r","i","e","s"," ","a","n","d"," ","c","a","l","l"," ","m","o","m"," ","t","h","e","n"," ","f","i","n","i","s","h"," ","t","h","e"," ","r","e","p","o","r","t",".">>,
      <<"P","a","c","k"," ","a","p","p","l","e","s"," ","a","n","d"," ","o","r","a","n","g","e","s"," ","f","o","r"," ","t","h","e"," ","t","r","i","p",".">>,
      <<"b","u","y"," ","a","p","p","l","e","s"," ","a","n","d"," ","o","r","a","n","g","e","s">>,
      <<"1","2","3"," ","M","a","i","n"," ","S","t",","," ","S","u","i","t","e"," ","4">>,
      <<"B","u","y"," ","m","i","l","k","."," ","i","t"," ","a","n","d"," ","c","a","l","l"," ","m","o","m">> }

Transcripts ==
    { StringValue(concatAll(fs)) :
          fs \in UNION { [1..n -> Fragments] : n \in 0..MaxFrags } }
        \cup { StringValue(t) : t \in ExampleTranscripts }
        \cup { Null, Undefined }

InitSeg ==
    /\ tasks = <<>>
    /\ searchQuery = <<>>
    /\ filter = "all"
    /\ now = 0
    /\ alert = "none"
    /\ voiceQueue = <<>>
    /\ input \in Transcripts
    /\ output = <<>>
    /\ pc = "idle"
    /\ phrase = <<>>
    /\ likely = FALSE
    /\ clock = FirstDay
    /\ latest = NoCall
    /\ earlier = NoCall
    /\ MountedEmpty
    /\ HookIdle

Segment ==
    /\ pc = "idle"
    /\ output' = parseTasksFromSpeech(input)
    /\ pc' = "done"
    /\ UNCHANGED <<input, phrase, likely>>
    /\ UNCHANGED <<storeVars, dateVars, mountVars, hookVars>>

NextSeg == Segment

SpecSeg == InitSeg /\ [][NextSeg]_vars

(***************************************************************************)
(* cleanTask and isLikelyTask applied to bounded candidates, as the loop   *)
(* over candidateTasks applies them                                        *)
(***************************************************************************)
CandidateFragments ==
    { <<"D","o">>, <<"b","u","y">>, <<"I","t">>, <<" ">>, <<"\t">>, <<",">>, <<";">>,
      <<"a","n","d"," ">> }

Candidates ==
    { concatAll(fs) :
          fs \in UNION { [1..n -> CandidateFragments] : n \in 0..MaxFrags } }

InitClean ==
    /\ tasks = <<>>
    /\ searchQuery = <<>>
    /\ filter = "all"
    /\ now = 0
    /\ alert = "none"
    /\ voiceQueue = <<>>
    /\ input \in { StringValue(c) : c \in Candidates }
    /\ output = <<>>
    /\ pc = "idle"
    /\ phrase = <<>>
    /\ likely = FALSE
    /\ clock = FirstDay
    /\ latest = NoCall
    /\ earlier = NoCall
    /\ MountedEmpty
    /\ HookIdle

\* const cleaned = cleanTask(candidate)
Clean ==
    /\ pc = "idle"
    /\ phrase' = cleanTask(input.text)
    /\ pc' = "cleaned"
    /\ UNCHANGED <<input, output, likely>>
    /\ UNCHANGED <<storeVars, dateVars, mountVars, hookVars>>

\* isLikelyTask(cleaned, taskVerbs)
Classify ==
    /\ pc = "cleaned"
    /\ likely' = isLikelyTask(phrase)
    /\ pc' = "classified"
    /\ UNCHANGED <<input, output, phrase>>
    /\ UNCHANGED <<storeVars, dateVars, mountVars, hookVars>>

NextClean == Clean \/ Classify

SpecClean == InitClean /\ [][NextClean]_vars

(***************************************************************************)
(* extractDueDateFromText (lib/speechParser.ts)                            *)
(***************************************************************************)
weekdays ==
    << <<"s","u","n","d","a","y">>,
       <<"m","o","n","d","a","y">>,
       <<"t","u","e","s","d","a","y">>,
       <<"w","e","d","n","e","s","d","a","y">>,
       <<"t","h","u","r","s","d","a","y">>,
       <<"f","r","i","d","a","y">>,
       <<"s","a","t","u","r","d","a","y">> >>

\* a weekend rule that never answers with the day of the call
daysUntilSaturdayNextWeek(currentDay) ==
    IF currentDay = 6 THEN 7 ELSE 6 - currentDay

\* const daysUntilSaturday = (6 - today.getDay() + 7) % 7
daysUntilSaturday(currentDay) == (6 - currentDay + 7) % 7

\* a weekday rule that answers with the day of the call
daysUntilSameDay(targetDay, currentDay) ==
    LET daysUntil == targetDay - currentDay
    IN IF daysUntil < 0 THEN daysUntil + 7 ELSE daysUntil

\* let daysUntil = targetDay - currentDay; if (daysUntil <= 0) daysUntil += 7
daysUntilWeekday(targetDay, currentDay) ==
    LET daysUntil == targetDay - currentDay
    IN IF daysUntil <= 0 THEN daysUntil + 7 ELSE daysUntil

\* the first index i of the loop with text.includes(weekdays[i]), 0 when
\* the loop ends without one (the indexes count from 1 here)
firstWeekdayIn(text) ==
    LET hits == {i \in 1..Len(weekdays) : includes(text, weekdays[i])}
    IN IF hits = {} THEN 0 ELSE CHOOSE i \in hits : \A j \in hits : i <= j

\* a resolver that tests for "tomorrow" before it tests for "today"
extractDueDateTomorrowFirst(taskText) ==
    LET today == DateValue(clock)
        text == toLowerCase(taskText)
        i == firstWeekdayIn(text)
    IN IF includes(text, <<"t","o","m","o","r","r","o","w">>)
       THEN setDate(today, getDate(today) + 1)
       ELSE IF includes(text, <<"t","o","d","a","y">>)
       THEN today
       ELSE IF includes(text, <<"n","e","x","t"," ","w","e","e","k">>)
       THEN setDate(today, getDate(today) + 7)
       ELSE IF includes(text, <<"w","e","e","k","e","n","d">>) \/ includes(text, <<"t","h","i","s"," ","w","e","e","k","e","n","d">>)
       THEN setDate(today, getDate(today) + daysUntilSaturday(getDay(today)))
       ELSE IF i # 0
       THEN setDate(today, getDate(today) + daysUntilWeekday(i - 1, getDay(today)))
       ELSE Null

\* new Date() is the wall clock at the time of the call
extractDueDateFromText(taskText) ==
    LET today == DateValue(clock)
        text == toLowerCase(taskText)
        i == firstWeekdayIn(text)
    IN IF includes(text, <<"t","o","d","a","y">>)
       THEN today
       ELSE IF includes(text, <<"t","o","m","o","r","r","o","w">>)
       THEN setDate(today, getDate(today) + 1)
       ELSE IF includes(text, <<"n","e","x","t"," ","w","e","e","k">>)
       THEN setDate(today, getDate(today) + 7)
       ELSE IF includes(text, <<"w","e","e","k","e","n","d">>) \/ includes(text, <<"t","h","i","s"," ","w","e","e","k","e","n","d">>)
       THEN setDate(today, getDate(today) + daysUntilSaturday(getDay(today)))
       ELSE IF i # 0
       THEN setDate(today, getDate(today) + daysUntilWeekday(i - 1, getDay(today)))
       ELSE Null

(***************************************************************************)
(* extractDueDateFromText called on bounded texts while the days pass      *)
(***************************************************************************)
TaskTexts ==
    { <<"r","e","m","i","n","d"," ","m","e"," ","t","o","m","o","r","r","o","w">>,
      <<"c","a","l","l"," ","m","o","m"," ","T","o","d","a","y">>,
      <<"p","l","a","n"," ","n","e","x","t"," ","w","e","e","k">>,
      <<"t","h","i","s"," ","w","e","e","k","e","n","d">>,
      <<"t","o","m","o","r","r","o","w"," ","o","r"," ","t","o","d","a","y">>,
      <<"w","e","e","k","e","n","d"," ","t","o","m","o","r","r","o","w">>,
      <<"n","e","x","t"," ","w","e","e","k"," ","o","n"," ","s","u","n","d","a","y">>,
      <<"s","a","t","u","r","d","a","y"," ","w","e","e","k","e","n","d">>,
      <<"S","u","n","d","a","y">>,
      <<"M","o","n","d","a","y">>,
      <<"p","a","y"," ","T","u","e","s","d","a","y">>,
      <<"w","e","d","n","e","s","d","a","y">>,
      <<"T","h","u","r","s","d","a","y">>,
      <<"p","a","y"," ","r","e","n","t"," ","f","r","i","d","a","y">>,
      <<"s","a","t","u","r","d","a","y">>,
      <<"b","u","y"," ","m","i","l","k">> }

InitDate ==
    /\ tasks = <<>>
    /\ searchQuery = <<>>
    /\ filter = "all"
    /\ now = 0
    /\ alert = "none"
    /\ voiceQueue = <<>>
    /\ input = StringValue(<<>>)
    /\ output = <<>>
    /\ pc = "idle"
    /\ phrase = <<>>
    /\ likely = FALSE
    /\ clock = FirstDay
    /\ latest = NoCall
    /\ earlier = NoCall
    /\ MountedEmpty
    /\ HookIdle

\* midnight passes
DayPasses ==
    /\ clock < LastDay
    /\ clock' = clock + 1
    /\ UNCHANGED <<latest, earlier>>
    /\ UNCHANGED <<storeVars, segVars, mountVars, hookVars>>

\* a caller resolves the due date of a task text
ExtractDueDate(taskText) ==
    /\ latest' = [made |-> TRUE, text |-> taskText, at |-> clock,
                  result |-> extractDueDateFromText(taskText)]
    /\ earlier' = IF latest.made /\ latest.text = taskText THEN latest ELSE NoCall
    /\ UNCHANGED clock
    /\ UNCHANGED <<storeVars, segVars, mountVars, hookVars>>

NextDate ==
    \/ DayPasses
    \/ \E taskText \in TaskTexts : ExtractDueDate(taskText)

SpecDate == InitDate /\ [][NextDate]_vars

(***************************************************************************)
(* Properties                                                              *)
(***************************************************************************)
IsBlank(s) == \A i \in 1..Len(s) : s[i] \in WhiteSpace

HasDueDate(t) == t.dueDate.kind = "date"

Sorted(ts) ==
    \A i \in 1..(Len(ts) - 1) :
        /\ HasDueDate(ts[i + 1]) => HasDueDate(ts[i])
        /\ (HasDueDate(ts[i]) /\ HasDueDate(ts[i + 1]))
               => ts[i].dueDate.time <= ts[i + 1].dueDate.time

\* the clock value an id starts with
CreatedAt(t) == t.id[1]

BlankTitleRejected ==
    [][\A form \in ManualForms :
          (IsBlank(form.title)
              /\ HandleAddTask(form.title, form.description, form.dueDate))
          => (tasks' = tasks /\ alert' = "Task title cannot be empty")]_vars

\* the validation error is on screen while the store holds tasks
BlankTitleRejectedWitness ==
    alert = "Task title cannot be empty" /\ Len(tasks) > 0

\* C3: every stored task has a title that is neither empty nor white space
\* only, whether manual entry or voice entry created it.
TitlesNotBlank == \A i \in 1..Len(tasks) : ~IsBlank(tasks[i].title)

\* the store holds a task of manual entry and a task of voice entry
TitlesNotBlankWitness ==
    /\ \E i \in 1..Len(tasks) : tasks[i].description.kind = "string"
    /\ \E i \in 1..Len(tasks) : tasks[i].description.kind = "undefined"

\* C4: a toggle request flips the completed flag of the tasks whose id
\* matches and changes nothing else: the other fields, the other tasks, the
\* stored order and the view state stay; with no matching id nothing changes.
Flipped(before, after, id) ==
    /\ Len(after) = Len(before)
    /\ \A i \in 1..Len(before) :
           IF before[i].id = id
           THEN /\ after[i].completed = ~before[i].completed
                /\ after[i].id = before[i].id
                /\ after[i].title = before[i].title
                /\ after[i].description = before[i].description
                /\ after[i].dueDate = before[i].dueDate
           ELSE after[i] = before[i]
    /\ ((\A i \in 1..Len(before) : before[i].id # id) => after = before)

ToggleFrame ==
    /\ [](\A id \in RequestIds :
              Flipped(tasks, reduceToggleTaskCompletion(tasks, id), id))
    /\ [][\A id \in RequestIds :
             ToggleTaskCompletion(id)
             => /\ Flipped(tasks, tasks', id)
                /\ UNCHANGED <<searchQuery, filter, alert>>]_vars

\* a completed task stands next to one that is not completed
ToggleFrameWitness ==
    \E i, j \in 1..Len(tasks) : tasks[i].completed /\ ~tasks[j].completed

\* C5 as stated: a second toggle with the same id leaves the store as the
\* first toggle left it.
ToggleIdempotent ==
    \A id \in RequestIds :
        reduceToggleTaskCompletion(reduceToggleTaskCompletion(tasks, id), id)
            = reduceToggleTaskCompletion(tasks, id)

\* C5 as amended: a second toggle with the same id restores the store the
\* first toggle started from; it equals a single toggle only when no task
\* has that id.
ToggleInvolution ==
    \A id \in RequestIds :
        LET once == reduceToggleTaskCompletion(tasks, id)
            twice == reduceToggleTaskCompletion(once, id)
        IN /\ twice = tasks
           /\ (twice = once) <=> (\A i \in 1..Len(tasks) : tasks[i].id # id)

\* the store holds a task that a toggle completed
ToggleInvolutionWitness == \E i \in 1..Len(tasks) : tasks[i].completed

\* C6: a delete request removes the tasks whose id matches and keeps every
\* other task, in the previous relative order, so a sorted collection stays
\* sorted; with no matching id nothing changes.
Removed(before, after, id) ==
    LET kept == {i \in 1..Len(before) : before[i].id # id}
        nth(k) == CHOOSE i \in kept : Cardinality({j \in kept : j <= i}) = k
    IN /\ Len(after) = Cardinality(kept)
       /\ \A k \in 1..Len(after) : after[k] = before[nth(k)]
       /\ (kept = 1..Len(before) => after = before)
       /\ (Sorted(before) => Sorted(after))

DeleteKeepsOthers ==
    /\ [](\A id \in RequestIds : Removed(tasks, reduceDeleteTask(tasks, id), id))
    /\ [][\A id \in RequestIds : DeleteTask(id) => Removed(tasks, tasks', id)]_vars

\* a delete took a task out of a filled store and left the others
DeleteKeepsOthersWitness == 0 < Len(tasks) /\ Len(tasks) < MaxTasks

SameLetter(c, d) ==
    \/ c = d
    \/ \E i \in 1..26 : {c, d} = {UpperCase[i], LowerCase[i]}

ContainsIgnoringCase(s, q) ==
    \E i \in 1..(Len(s) + 1) :
        /\ i + Len(q) - 1 <= Len(s)
        /\ \A k \in 1..Len(q) : SameLetter(s[i + k - 1], q[k])

InView(t) ==
    /\ \/ ContainsIgnoringCase(t.title, searchQuery)
       \/ /\ t.description.kind = "string"
          /\ ContainsIgnoringCase(t.description.text, searchQuery)
    /\ \/ filter = "all"
       \/ filter = "completed" /\ t.completed
       \/ filter = "incomplete" /\ ~t.completed

\* C7: the view is, in stored order, exactly the tasks whose title or
\* description contains the search query ignoring case and that satisfy the
\* filter; the view for "all" and the empty query is the whole collection;
\* changing the query or the filter never changes the stored collection.
ViewIsFilteredStore ==
    /\ [](/\ filteredTasks = SelectSeq(tasks, InView)
          /\ viewOf(tasks, "all", <<>>) = tasks)
    /\ [][(searchQuery' # searchQuery \/ filter' # filter) => tasks' = tasks]_vars

\* a query in upper case and the filter "completed" select one task of two
ViewIsFilteredStoreWitness ==
    /\ searchQuery = <<"T","E">>
    /\ filter = "completed"
    /\ Len(tasks) = 3
    /\ Len(filteredTasks) = 1
    /\ filteredTasks[1].title = <<" ","m","i","l","k">>

RemoveAt(ts, k) == SubSeq(ts, 1, k - 1) \o SubSeq(ts, k + 1, Len(ts))

\* C8: an add puts the new task behind every stored task with the same due
\* date (or, when it has none, behind every stored task) and keeps the
\* relative order of the stored tasks, so tasks with equal due dates and
\* tasks without due date stay in insertion order.
StableTieBreak ==
    [][Len(tasks') = Len(tasks) + 1
       => \E k \in 1..Len(tasks') :
              /\ RemoveAt(tasks', k) = tasks
              /\ \A j \in (k + 1)..Len(tasks') :
                     tasks'[j].dueDate # tasks'[k].dueDate]_vars

\* two tasks with the same due date, the one created earlier in front
StableTieBreakWitness ==
    /\ Len(tasks) = 2
    /\ HasDueDate(tasks[1])
    /\ tasks[1].dueDate = tasks[2].dueDate
    /\ CreatedAt(tasks[1]) = "0" /\ CreatedAt(tasks[2]) = "1"

\* C9: no two stored tasks share an id.
UniqueIds ==
    \A i, j \in 1..Len(tasks) : i # j => tasks[i].id # tasks[j].id

\* C10: parseTasksFromSpeech never returns an entry that is empty or white
\* space only, and never returns the same string twice.
SegmentsClosed ==
    pc = "done" =>
        /\ \A i \in 1..Len(output) : ~IsBlank(output[i])
        /\ \A i, j \in 1..Len(output) : i # j => output[i] # output[j]

\* two sentences that clean to the same phrase give one entry
SegmentsClosedWitness ==
    /\ pc = "done"
    /\ input = StringValue(<<"b","u","y",".","b","u","y">>)
    /\ output = << <<"B","u","y">> >>

PackTranscript ==
    StringValue(<<"P","a","c","k"," ","a","p","p","l","e","s"," ","a","n","d"," ","o","r","a","n","g","e","s"," ","f","o","r"," ","t","h","e"," ","t","r","i","p",".">>)

\* C11 as stated: the transcript "Pack apples and oranges for the trip."
\* gives the single entry "Pack apples and oranges for the trip".
PackStaysOneTask ==
    (pc = "done" /\ input = PackTranscript)
        => output = << <<"P","a","c","k"," ","a","p","p","l","e","s"," ","a","n","d"," ","o","r","a","n","g","e","s"," ","f","o","r"," ","t","h","e"," ","t","r","i","p">> >>

\* C11 as amended: the transcript "Pack apples and oranges for the trip."
\* gives the two entries "Pack apples" and "Oranges for the trip", because
\* a span of three or more words classifies as an independent task.
PackSplitsInTwo ==
    (pc = "done" /\ input = PackTranscript)
        => /\ output = << <<"P","a","c","k"," ","a","p","p","l","e","s">>,
                     <<"O","r","a","n","g","e","s"," ","f","o","r"," ","t","h","e"," ","t","r","i","p">> >>
           /\ isLikelyTask(<<"o","r","a","n","g","e","s"," ","f","o","r"," ","t","h","e"," ","t","r","i","p">>)

\* parseTasksFromSpeech returned for that transcript
PackSplitsInTwoWitness ==
    pc = "done" /\ input = PackTranscript /\ Len(output) = 2

GroceriesTranscript ==
    StringValue(<<"B","u","y"," ","g","r","o","c","e","r","i","e","s"," ","a","n","d"," ","c","a","l","l"," ","m","o","m"," ","t","h","e","n"," ","f","i","n","i","s","h"," ","t","h","e"," ","r","e","p","o","r","t",".">>)

\* C12: the transcript "Buy groceries and call mom then finish the report."
\* gives exactly "Buy groceries", "Call mom", "Finish the report", in that
\* order.
GroceriesExample ==
    (pc = "done" /\ input = GroceriesTranscript)
        => output = << <<"B","u","y"," ","g","r","o","c","e","r","i","e","s">>,
                     <<"C","a","l","l"," ","m","o","m">>,
                     <<"F","i","n","i","s","h"," ","t","h","e"," ","r","e","p","o","r","t">> >>

\* parseTasksFromSpeech returned three entries for that transcript
GroceriesExampleWitness ==
    pc = "done" /\ input = GroceriesTranscript /\ Len(output) = 3

\* C13: cleaning a cleaned string changes nothing.
CleanIdempotent == pc = "cleaned" => cleanTask(phrase) = phrase

\* the first word of s, up to the first white space
FirstWord(s) ==
    LET stops == {i \in 1..Len(s) : IsSpace(s[i])}
    IN IF stops = {} THEN s
       ELSE SubSeq(s, 1, (CHOOSE i \in stops : \A j \in stops : i <= j) - 1)

SameWord(v, w) ==
    Len(v) = Len(w) /\ \A k \in 1..Len(v) : SameLetter(v[k], w[k])

StartsWithSeparator(s) ==
    /\ s # <<>>
    /\ \/ s[1] \in {",", ";"}
       \/ \E k \in 1..Len(conjunctions) : SameWord(FirstWord(s), conjunctions[k])

\* C14: a cleaned string has no white space at its start or end and does
\* not start with ',' or ';' or one of the words and, also, plus, then.
CleanHasNoSeparatorStart ==
    pc = "cleaned" =>
        /\ phrase # <<>> => (~IsSpace(phrase[1]) /\ ~IsSpace(phrase[Len(phrase)]))
        /\ ~StartsWithSeparator(phrase)

\* C15: two calls of the resolver with the same text give the same date,
\* whatever the wall clock shows when they run.
ResolvePure ==
    (latest.made /\ earlier.made /\ latest.text = earlier.text)
        => latest.result = earlier.result

\* the weekday of a time value: 2025-01-01 was a Wednesday
WeekdayOf(t) == (t - makeDay(2025, 0, 1) + 3) % 7

Mentions(text, word) == ContainsIgnoringCase(text, word)

MentionsToday(text) == Mentions(text, <<"t","o","d","a","y">>)
MentionsTomorrow(text) == Mentions(text, <<"t","o","m","o","r","r","o","w">>)
MentionsNextWeek(text) == Mentions(text, <<"n","e","x","t"," ","w","e","e","k">>)
MentionsWeekend(text) == Mentions(text, <<"w","e","e","k","e","n","d">>)

WeekdayNames ==
    << <<"s","u","n","d","a","y">>,
       <<"m","o","n","d","a","y">>,
       <<"t","u","e","s","d","a","y">>,
       <<"w","e","d","n","e","s","d","a","y">>,
       <<"t","h","u","r","s","d","a","y">>,
       <<"f","r","i","d","a","y">>,
       <<"s","a","t","u","r","d","a","y">> >>

\* the weekdays, 0 for Sunday, whose names the text mentions
WeekdaysIn(text) == {w \in 0..6 : Mentions(text, WeekdayNames[w + 1])}

\* C16: for a text whose only date keyword is a weekday name, the resolver
\* returns a date on that weekday, 1 to 7 days after the day of the call,
\* and exactly 7 days after it when the call is made on that weekday.
WeekdayStrictlyAfter ==
    LET text == latest.text
        days == latest.result.time - latest.at
    IN (/\ latest.made
        /\ Cardinality(WeekdaysIn(text)) = 1
        /\ ~MentionsToday(text) /\ ~MentionsTomorrow(text)
        /\ ~MentionsNextWeek(text) /\ ~MentionsWeekend(text))
       => /\ latest.result.kind = "date"
          /\ WeekdayOf(latest.result.time) \in WeekdaysIn(text)
          /\ days \in 1..7
          /\ (WeekdayOf(latest.at) \in WeekdaysIn(text) => days = 7)

\* "Monday" resolved on a Monday
WeekdayStrictlyAfterWitness ==
    /\ latest.made
    /\ latest.text = <<"M","o","n","d","a","y">>
    /\ WeekdayOf(latest.at) = 1
    /\ latest.result.time = latest.at + 7

\* C17: for a text that mentions "weekend" and none of today, tomorrow and
\* next week, the resolver returns the first Saturday at or after the day of
\* the call: 0 to 6 days later, the day of the call when that is a Saturday.
WeekendFirstSaturday ==
    LET text == latest.text
        days == latest.result.time - latest.at
    IN (/\ latest.made
        /\ MentionsWeekend(text)
        /\ ~MentionsToday(text) /\ ~MentionsTomorrow(text)
        /\ ~MentionsNextWeek(text))
       => /\ latest.result.kind = "date"
          /\ WeekdayOf(latest.result.time) = 6
          /\ days \in 0..6
          /\ (WeekdayOf(latest.at) = 6 => days = 0)

\* "this weekend" resolved on a Saturday
WeekendFirstSaturdayWitness ==
    /\ latest.made
    /\ latest.text = <<"t","h","i","s"," ","w","e","e","k","e","n","d">>
    /\ WeekdayOf(latest.at) = 6
    /\ latest.result.time = latest.at

\* the date the rules give in their priority order for a call on day at
ExpectedDate(text, at) ==
    IF MentionsToday(text) THEN DateValue(at)
    ELSE IF MentionsTomorrow(text) THEN DateValue(at + 1)
    ELSE IF MentionsNextWeek(text) THEN DateValue(at + 7)
    ELSE IF MentionsWeekend(text)
    THEN DateValue(CHOOSE t \in at..(at + 6) : WeekdayOf(t) = 6)
    ELSE IF WeekdaysIn(text) # {}
    THEN LET w == CHOOSE v \in WeekdaysIn(text) : \A u \in WeekdaysIn(text) : v <= u
         IN DateValue(CHOOSE t \in (at + 1)..(at + 7) : WeekdayOf(t) = w)
    ELSE Null

\* C18: the resolver returns the result of the first rule, in the order
\* today, tomorrow (+1 day), next week (+7 days), weekend, weekday name,
\* whose keyword occurs in the text ignoring case, and null when none
\* occurs; "remind me tomorrow" resolved on 2025-01-01 gives 2025-01-02.
ResolvePriority ==
    latest.made =>
        /\ latest.result = ExpectedDate(latest.text, latest.at)
        /\ (latest.text = <<"r","e","m","i","n","d"," ","m","e"," ","t","o","m","o","r","r","o","w">>
               /\ civilFromDay(latest.at) = [year |-> 2025, month |-> 0, date |-> 1])
           => civilFromDay(latest.result.time)
                  = [year |-> 2025, month |-> 0, date |-> 2]

\* "remind me tomorrow" resolved on 2025-01-01
ResolvePriorityWitness ==
    /\ latest.made
    /\ latest.text = <<"r","e","m","i","n","d"," ","m","e"," ","t","o","m","o","r","r","o","w">>
    /\ civilFromDay(latest.at) = [year |-> 2025, month |-> 0, date |-> 1]
    /\ latest.result.kind = "date"

\* the number of white-space-separated words of a trimmed string
WordCount(s) ==
    Cardinality({i \in 1..Len(s) :
                    ~IsSpace(s[i]) /\ (i = 1 \/ IsSpace(s[i - 1]))})

FirstWordAmong(s, words) == \E w \in words : SameWord(FirstWord(s), w)

\* the rules of the classifier, the first that applies deciding
LikelyByRules(s) ==
    IF Len(s) < 3 THEN FALSE
    ELSE IF FirstWordAmong(s, taskVerbs) THEN TRUE
    ELSE IF WordCount(s) >= 3 THEN TRUE
    ELSE IF ~FirstWordAmong(s, pronouns) /\ WordCount(s) >= 2 THEN TRUE
    ELSE FALSE

\* C19: the verdict of isLikelyTask on a cleaned candidate is the verdict
\* of the rules: shorter than 3 characters false; first word a task verb,
\* ignoring case, true; 3 or more words true; first word not a pronoun and
\* 2 or more words true; otherwise false.
LikelyFollowsRules == pc = "classified" => likely = LikelyByRules(phrase)

\* a task verb of two characters is refused for its length
LikelyFollowsRulesWitness ==
    pc = "classified" /\ phrase = <<"D","o">> /\ ~likely

HasSeparator(s) ==
    \/ \E i \in 1..Len(s) : s[i] \in {".", "!", ";", ","}
    \/ \E i \in 1..Len(s) : \E k \in 1..Len(conjunctions) :
           LET n == Len(conjunctions[k])
           IN /\ i + n + 1 <= Len(s)
              /\ IsSpace(s[i])
              /\ SameWord(SubSeq(s, i + 1, i + n), conjunctions[k])
              /\ IsSpace(s[i + n + 1])

\* C20: parseTasksFromSpeech returns the empty array for an empty, a
\* white-space-only, a null and an undefined transcript, and the single
\* entry cleanTask(transcript) for a transcript without '.', '!', ';', ','
\* and without a conjunction between white space.
SegmentEdgeCases ==
    pc = "done" =>
        /\ (input.kind # "string" \/ IsBlank(input.text)) => output = <<>>
        /\ (input.kind = "string" /\ ~IsBlank(input.text)
              /\ ~HasSeparator(input.text))
           => output = <<cleanTask(input.text)>>

\* a transcript of two words with a leading conjunction gives one entry
SegmentEdgeCasesWitness ==
    /\ pc = "done"
    /\ input = StringValue(<<"T","h","e","n"," ","b","u","y","i","t">>)
    /\ output = << <<"B","u","y","i","t">> >>

\* C21: the button, handed the README's transcript "Buy groceries and call
\* mom then finish report", detects the three phrases buy groceries, call
\* mom, finish report: it adds the first and leaves the other two to add.
ReadmeSplitsInThree ==
    [][ProcessTranscript(ReadmeTranscript)
       => /\ \E k \in 1..Len(tasks') :
                 /\ RemoveAt(tasks', k) = tasks
                 /\ SameWord(tasks'[k].title, <<"b","u","y"," ","g","r","o","c","e","r","i","e","s">>)
          /\ Len(voiceQueue') = 2
          /\ SameWord(voiceQueue'[1], <<"c","a","l","l"," ","m","o","m">>)
          /\ SameWord(voiceQueue'[2], <<"f","i","n","i","s","h"," ","r","e","p","o","r","t">>)]_vars

\* C26: the adds of one voice delivery are applied one after the other,
\* each to the collection the previous one left: every add keeps the stored
\* tasks, puts in the task with the next detected title and leaves the
\* collection sorted, so no add is lost.
AddsAreSerialized ==
    [][/\ VoiceAddNext
          => /\ \E k \in 1..Len(tasks') :
                    /\ RemoveAt(tasks', k) = tasks
                    /\ tasks'[k].title = Head(voiceQueue)
             /\ voiceQueue' = Tail(voiceQueue)
             /\ Sorted(tasks')
       /\ \A transcript \in ReadmeTranscripts :
             (ProcessTranscript(transcript)
                 /\ parseTasksFromText(transcript) # <<>>)
             => /\ \E k \in 1..Len(tasks') :
                       /\ RemoveAt(tasks', k) = tasks
                       /\ tasks'[k].title = Head(parseTasksFromText(transcript))
                /\ voiceQueue' = Tail(parseTasksFromText(transcript))
                /\ Sorted(tasks')]_vars

\* both titles of one delivery stand behind a task stored before it
AddsAreSerializedWitness ==
    /\ voiceQueue = <<>>
    /\ Len(tasks) = 3
    /\ tasks[1].title = <<"B","u","y"," ","p","r","o","v","i","s","i","o","n","s"," ","a","n","d"," ","c","a","l","l"," ","m","o","m">>
    /\ tasks[2].title = <<"B","u","y"," ","g","r","o","c","e","r","i","e","s"," ","a","n","d"," ","c","a","l","l"," ","m","o","m">>
    /\ tasks[3].title = <<"F","i","n","i","s","h"," ","r","e","p","o","r","t">>

\* the candidates of each sentence collected on their own, one sentence
\* after the other
RECURSIVE SentenceBySentence(_)
SentenceBySentence(sentences) ==
    IF sentences = <<>> THEN <<>>
    ELSE addSentences(<<>>, <<Head(sentences)>>)
             \o SentenceBySentence(Tail(sentences))

\* C23: the sentences are processed independently: the result is what the
\* candidates of each sentence, collected on their own, give; a span of a
\* later sentence is never appended to a candidate of an earlier sentence.
SentencesIndependent ==
    (pc = "done" /\ input.kind = "string" /\ ~IsBlank(input.text))
        => output = finalizeTasks(expandCommas(
                        SentenceBySentence(splitSentences(input.text))))

\* C24: the transcript "123 Main St, Suite 4" gives one entry and is not
\* split at its comma.
AddressStaysWhole ==
    (pc = "done" /\ input = StringValue(<<"1","2","3"," ","M","a","i","n"," ","S","t",","," ","S","u","i","t","e"," ","4">>))
        => output = << <<"1","2","3"," ","M","a","i","n"," ","S","t",","," ","S","u","i","t","e"," ","4">> >>

\* the spans of a sentence folded into candidates: a cleaned span that the
\* rules classify as a task starts a candidate, any other span is appended
\* with " and " to the candidate before it, or starts the first candidate
MergedSpans(spans) ==
    LET F[i \in 0..Len(spans)] ==
            IF i = 0 THEN <<>>
            ELSE LET c == cleanTask(spans[i])
                 IN IF c # <<>> /\ LikelyByRules(c) THEN Append(F[i - 1], c)
                    ELSE IF F[i - 1] # <<>>
                         THEN [F[i - 1] EXCEPT
                                  ![Len(F[i - 1])] = @ \o <<" ","a","n","d"," ">> \o c]
                         ELSE <<c>>
    IN F[Len(spans)]

ApplesTranscript ==
    StringValue(<<"b","u","y"," ","a","p","p","l","e","s"," ","a","n","d"," ","o","r","a","n","g","e","s">>)

\* C25: in a transcript of one sentence with several conjunction-split
\* spans and no comma, a span that does not classify as a task is appended
\* with " and " to the candidate before it; "buy apples and oranges" gives
\* exactly one entry.
SpansMergeOntoPrevious ==
    pc = "done" =>
        /\ (/\ input.kind = "string"
            /\ Len(splitSentences(input.text)) = 1
            /\ \A i \in 1..Len(input.text) : input.text[i] # ","
            /\ Len(candidateTasksOf(splitSentences(input.text)[1])) > 1)
           => output = finalizeTasks(MergedSpans(
                           candidateTasksOf(splitSentences(input.text)[1])))
        /\ input = ApplesTranscript
           => output = << <<"B","u","y"," ","a","p","p","l","e","s"," ","a","n","d"," ","O","r","a","n","g","e","s">> >>

\* parseTasksFromSpeech returned one entry for "buy apples and oranges"
SpansMergeOntoPreviousWitness ==
    pc = "done" /\ input = ApplesTranscript /\ Len(output) = 1

\* C22: if storage held a task list when the provider mounted, the store
\* holds that list once loadTasks has completed, whichever of the mount-time
\* getItem and setItem the storage serves first.
LoadRestoresPersisted ==
    [][(/\ mount.load = "read"
        /\ mount'.load = "done"
        /\ mount.persisted.kind = "string")
          => tasks' = JSONparse(mount.persisted)]_vars

\* C27: after tasks with due dates were loaded from storage, an add
\* completes without error and leaves the tasks that have a due date before
\* those that have none.
AddAfterLoadSucceeds ==
    /\ ~crashed
    /\ mount.load = "done"
           => \A i \in 1..(Len(tasks) - 1) :
                  Truthy(tasks[i + 1].dueDate) => Truthy(tasks[i].dueDate)

\* C28: every invocation of stopListening that has completed, on whichever
\* path, has left isListening false.
StopLeavesNotListening ==
    \A c \in Callers : calls[c].pc = "done" => ~hook.isListening

\* C29: one startListening followed by one press on stop causes at most one
\* transcription job and at most one delivery to onTasksDetected.
OneSessionOneDelivery ==
    /\ session.jobs <= 1
    /\ Len(session.delivered) <= 1

\* C30: after a stopListening that ended on a poll with status "error", the
\* hook's error is the service's error or "Transcription failed";
\* "Transcription timed out" is there only after MaxAttempts polls without
\* a completed or error status.
PollErrorKept ==
    /\ \A c \in Callers :
           (/\ calls[c].pc = "done"
            /\ calls[c].path = "pollError"
            /\ \A d \in Callers \ {c} : calls[d].pc = "idle")
              => hook.error \in { "Transcription failed", "Download error" }
    /\ hook.error = "Transcription timed out"
           => \E c \in Callers : /\ calls[c].path = "exhausted"
                                  /\ calls[c].attempts = MaxAttempts

====
